---- MODULE Spec2Model ----
(***************************************************************************)
(* Model of package dbf (src/dbf.go): NewReader parses the header and the  *)
(* field descriptors of a DBF stream, Reader.Read decodes one record under *)
(* the Reader's mutex.  The stream is an io.ReadSeeker: an immutable byte  *)
(* content (file) and a cursor (pos).                                      *)
(***************************************************************************)
EXTENDS Integers, Sequences, FiniteSets, TLC

(* ---- bounds of the model ---- *)
MaxReaders == 2        \* goroutines calling Read on the one Reader
MaxIndex == 1          \* Read(i) is called with i in 0..MaxIndex
MaxFill == 2048        \* valid descriptors in the long stream

(* ---- constants of the program ---- *)
Uint16 == 65536
SupportedVersion == 3
FieldsStart == 32
FieldSize == 32
HeaderSize == 12
NameSize == 11
HeaderTerminator == 13
DefaultBufSize == 4096
SP == 32
STAR == 42
TypeC == 67
TypeN == 78
TypeF == 70

Procs == 1..MaxReaders
Free == 0
Min(a, b) == IF a < b THEN a ELSE b

(* ---- the stream content ---- *)
\* A descriptor as laid out on disk: name (NUL padded to 11), type, offset,
\* length, decimal places, 14 reserved bytes.
Desc(name, type, len, dec) == [name |-> name, type |-> type, off |-> 0, len |-> len, dec |-> dec]
\* the descriptors that fill the long stream: name "x", Character, length 1
FillDesc == Desc(<<120>>, TypeC, 1, 0)

\* the length of the stream: the whole layout, or less when it is cut short
FullLen(descs, nfill, tail) == FieldsStart + FieldSize * (Len(descs) + nfill) + Len(tail)
FileLen(f) == f.size

DescByte(d, o) ==
    IF o < NameSize THEN (IF o < Len(d.name) THEN d.name[o + 1] ELSE 0)
    ELSE IF o = 11 THEN d.type
    ELSE IF o < 16 THEN (d.off \div (256 ^ (o - 12))) % 256
    ELSE IF o = 16 THEN d.len
    ELSE IF o = 17 THEN d.dec
    ELSE 0

HeaderByte(f, p) ==
    IF p = 0 THEN f.version
    ELSE IF p = 1 THEN f.year
    ELSE IF p = 2 THEN f.month
    ELSE IF p = 3 THEN f.day
    ELSE IF p < 8 THEN (f.nrec \div (256 ^ (p - 4))) % 256
    ELSE IF p = 8 THEN f.hl % 256
    ELSE IF p = 9 THEN f.hl \div 256
    ELSE IF p = 10 THEN f.rl % 256
    ELSE IF p = 11 THEN f.rl \div 256
    ELSE 0

\* the byte of the stream at absolute offset p, 0 <= p < FileLen(f)
ByteAt(f, p) ==
    IF p < FieldsStart THEN HeaderByte(f, p)
    ELSE IF p < FieldsStart + FieldSize * (Len(f.descs) + f.nfill)
    THEN LET slot == (p - FieldsStart) \div FieldSize
             o == (p - FieldsStart) % FieldSize
         IN  DescByte(IF slot < Len(f.descs) THEN f.descs[slot + 1] ELSE FillDesc, o)
    ELSE f.tail[p - (FieldsStart + FieldSize * (Len(f.descs) + f.nfill)) + 1]

\* io.ReadFull of n bytes at cursor p: all n bytes, or a short read that
\* consumes what is left and fails.
ReadFull(f, p, n) ==
    LET ok == (n = 0) \/ (p + n <= FileLen(f))
    IN  [ok |-> ok,
         bytes |-> IF ok THEN [j \in 1..n |-> ByteAt(f, p + j - 1)] ELSE <<>>,
         pos |-> IF ok THEN p + n ELSE IF p >= FileLen(f) THEN p ELSE FileLen(f)]

(* ---- conversions of a field's raw bytes ---- *)
AsciiSpace == {9, 10, 11, 12, 13, 32}
Digits == 48..57
IsSign(b) == b = 43 \/ b = 45

\* the bytes of s from its first to its last byte outside cutl / cutr
TrimSets(s, cutl, cutr) ==
    LET keepl == {j \in 1..Len(s) : s[j] \notin cutl}
        keepr == {j \in 1..Len(s) : s[j] \notin cutr}
        first == IF keepl = {} THEN Len(s) + 1 ELSE CHOOSE j \in keepl : \A i \in keepl : j <= i
        last == IF keepr = {} THEN 0 ELSE CHOOSE j \in keepr : \A i \in keepr : i <= j
    IN  SubSeq(s, first, last)
\* strings.TrimRight(s, cut)
TrimRightSet(s, cut) == TrimSets(s, {}, cut)
\* strings.TrimSpace on the raw bytes (single-byte white space)
TrimSpace(s) == TrimSets(s, AsciiSpace, AsciiSpace)

\* the number written by the first n decimal digits of s
RECURSIVE DigitsUpTo(_, _)
DigitsUpTo(s, n) == IF n = 0 THEN 0 ELSE 10 * DigitsUpTo(s, n - 1) + (s[n] - 48)
DigitsValue(s) == DigitsUpTo(s, Len(s))
AllDigits(s) == \A j \in 1..Len(s) : s[j] \in Digits
Unsigned(s) == IF s # <<>> /\ IsSign(s[1]) THEN Tail(s) ELSE s
IsNeg(s) == s # <<>> /\ s[1] = 45

DecodeErr == [kind |-> "decode"]
NoErr == [kind |-> "nil"]
IOErr == [kind |-> "io"]

\* strconv.Atoi: optional sign, then one or more decimal digits
Atoi(s) ==
    LET u == Unsigned(s)
    IN  IF u # <<>> /\ AllDigits(u)
        THEN [v |-> [t |-> "int", v |-> IF IsNeg(s) THEN 0 - DigitsValue(u) ELSE DigitsValue(u)], err |-> NoErr]
        ELSE [v |-> [t |-> "int", v |-> 0], err |-> DecodeErr]

\* strconv.ParseFloat on sign, digits and one optional point (the file bytes
\* hold no exponent, "inf" or "nan"): value = mant / 10^scale
ParseFloat(s) ==
    LET u == Unsigned(s)
        dots == {j \in 1..Len(u) : u[j] = 46}
        d == IF dots = {} THEN Len(u) + 1 ELSE CHOOSE j \in dots : TRUE
        ip == SubSeq(u, 1, d - 1)
        fp == SubSeq(u, d + 1, Len(u))
    IN  IF Cardinality(dots) <= 1 /\ AllDigits(ip) /\ AllDigits(fp) /\ Len(ip) + Len(fp) > 0
        THEN [v |-> [t |-> "float", neg |-> IsNeg(s), mant |-> DigitsValue(ip \o fp), scale |-> Len(fp)],
              err |-> NoErr]
        ELSE [v |-> [t |-> "float", neg |-> FALSE, mant |-> 0, scale |-> 0], err |-> DecodeErr]

\* charmap.Windows1251: ASCII maps to itself, 0xC0..0xFF to U+0410..U+044F,
\* the unassigned 0x98 to U+FFFD; the decoder never fails.
Cp1251Table ==
    <<1026, 1027, 8218, 1107, 8222, 8230, 8224, 8225, 8364, 8240, 1033, 8249, 1034, 1036, 1035, 1039,
      1106, 8216, 8217, 8220, 8221, 8226, 8211, 8212, 65533, 8482, 1113, 8250, 1114, 1116, 1115, 1119,
      160, 1038, 1118, 1032, 164, 1168, 166, 167, 1025, 169, 1028, 171, 172, 173, 174, 1031,
      176, 177, 1030, 1110, 1169, 181, 182, 183, 1105, 8470, 1108, 187, 1112, 1029, 1109, 1111>>
Cp1251(b) == IF b < 128 THEN b ELSE IF b >= 192 THEN 1040 + (b - 192) ELSE Cp1251Table[b - 127]
DecodeString(s) == [v |-> [t |-> "text", v |-> [j \in 1..Len(s) |-> Cp1251(s[j])]], err |-> NoErr]

\* the switch on f.Type of Read: the value stored under the field's name, and err
FieldValue(f, raw) ==
    LET fieldVal == TrimSpace(raw)
    IN  IF f.Type = TypeF
        THEN IF Len(fieldVal) = 0
             THEN [v |-> [t |-> "float", neg |-> FALSE, mant |-> 0, scale |-> 0], err |-> NoErr]
             ELSE ParseFloat(fieldVal)
        ELSE IF f.Type = TypeN
        THEN IF Len(fieldVal) = 0 THEN [v |-> [t |-> "int", v |-> 0], err |-> NoErr]
             ELSE IF f.DecimalPlaces > 0 THEN ParseFloat(fieldVal)
             ELSE Atoi(fieldVal)
        ELSE IF f.Type = TypeC
        THEN IF Len(fieldVal) = 0 THEN [v |-> [t |-> "text", v |-> <<>>], err |-> NoErr]
             ELSE DecodeString(fieldVal)
        ELSE [v |-> [t |-> "raw", v |-> fieldVal], err |-> NoErr]

\* Field.validate
Validate(f) ==
    IF f.Type \in {TypeC, TypeN, TypeF} THEN NoErr ELSE [kind |-> "fieldtype", type |-> f.Type]

\* binary.Read of one Field: the 32 bytes decoded, or the zero Field when the
\* read fell short
ZeroField == [Name |-> [j \in 1..NameSize |-> 0], Type |-> 0, Offset |-> 0, Len |-> 0, DecimalPlaces |-> 0]
DecodeField(b) ==
    [Name |-> SubSeq(b, 1, NameSize), Type |-> b[12],
     Offset |-> b[13] + 256 * b[14] + 65536 * b[15] + 16777216 * b[16],
     Len |-> b[17], DecimalPlaces |-> b[18]]

\* Reader.FieldName on a Field
FieldName(f) == TrimRightSet(f.Name, {0})

(* ---- the streams NewReader is opened on ---- *)
\* field descriptors: "ID" Numeric 2, "NAME" Character 2
SchemaA == <<Desc(<<73, 68>>, TypeN, 2, 0), Desc(<<78, 65, 77, 69>>, TypeC, 2, 0)>>
\* "V" Numeric 3 with one decimal place, "K" Numeric 1
SchemaC == <<Desc(<<86>>, TypeN, 3, 1), Desc(<<75>>, TypeN, 1, 0)>>
\* "F" Float 2, then two fields both named "A"
SchemaDup == <<Desc(<<70>>, TypeF, 2, 0), Desc(<<65>>, TypeC, 1, 0), Desc(<<65>>, TypeN, 1, 0)>>
\* "M" of the unsupported type 'M'
SchemaBad == <<Desc(<<77>>, 77, 1, 0)>>

\* <<headerLength, descriptors, recordLength>>
Layouts ==
    { <<97, SchemaA, 5>>, <<97, SchemaC, 5>>, <<129, SchemaDup, 5>>,
      <<97, SchemaA, 3>>, <<66, SchemaA, 5>>, <<34, SchemaA, 5>>,
      <<65, SchemaBad, 2>>, <<129, SchemaA, 5>> }

\* record bytes after the terminator
RecA == <<32, 52, 50, 200, 32>>       \* " 42" and cp1251 0xC8
RecB == <<32, 52, 46, 50, 55>>        \* " 4.27"
RecC == <<32, 49, 46, 50, 120>>       \* " 1.2x"
RecDel == <<42, 32, 49, 32, 32>>      \* "* 1  "
RecBad == <<120, 32, 49, 32, 50>>     \* "x 1 2"
RecBlank == <<32, 32, 32, 32, 32>>
Datas == { <<>>, RecA \o RecDel, RecB \o RecBad, RecC \o RecBlank, RecBlank \o <<32, 52>> }
EndBytes == {HeaderTerminator, 0}

MkFile(version, hl, descs, rl, nfill, tail) ==
    [version |-> version, year |-> 124, month |-> 11, day |-> 3, nrec |-> 2,
     hl |-> hl, rl |-> rl, descs |-> descs, nfill |-> nfill, tail |-> tail,
     size |-> FullLen(descs, nfill, tail)]

Files ==
    { MkFile(SupportedVersion, l[1], l[2], l[3], 0, <<e>> \o d) : l \in Layouts, e \in EndBytes, d \in Datas }
    \cup { MkFile(4, 97, SchemaA, 5, 0, <<HeaderTerminator>> \o RecA) }
    \cup { [MkFile(SupportedVersion, 97, SchemaA, 5, 0, <<HeaderTerminator>>) EXCEPT !.size = n] : n \in {8, 50, 96} }
    \cup { MkFile(SupportedVersion, hl, <<>>, 2, MaxFill, <<HeaderTerminator>>) : hl \in {0, Uint16 - 1} }

\* streams that take Read through each of its exits: success, deleted and
\* corrupt flag, decode failure on the first and on a later field, short read
LockFiles ==
    { MkFile(SupportedVersion, 97, SchemaC, 5, 0, <<HeaderTerminator>> \o RecC \o RecDel),
      MkFile(SupportedVersion, 97, SchemaA, 5, 0, <<HeaderTerminator>> \o RecA \o RecBad),
      MkFile(SupportedVersion, 97, SchemaC, 5, 0, <<HeaderTerminator>> \o RecBlank \o <<32, 52>>),
      MkFile(SupportedVersion, 65, SchemaBad, 2, 0, <<HeaderTerminator>>) }

(* ---- state ---- *)
VARIABLES
    file,      \* the content of the stream r (never written)
    pos,       \* the cursor of the stream
    pcNew,     \* where NewReader is
    h,         \* NewReader's header struct
    offset,    \* NewReader's running offset (uint16)
    nFields,   \* len(fields) of NewReader: fields[j] is Field(j)
    openErr,   \* the error NewReader returned
    reader,    \* the Reader NewReader returned
    openPos,   \* the cursor when NewReader returned
    mu,        \* Reader.mu: Free or the goroutine holding it
    pc,        \* where each caller of Read is
    idx,       \* the i of the call
    seekErr,   \* whether the call's Seek failed
    deleted,   \* the deletion flag the call read, -1 before
    k,         \* fields decoded so far by the call
    rec,       \* the call's rec map
    nread,     \* bytes the call has consumed
    ret        \* the values the call returns

vars == <<file, pos, pcNew, h, offset, nFields, openErr, reader, openPos,
          mu, pc, idx, seekErr, deleted, k, rec, nread, ret>>
newVars == <<pcNew, h, offset, nFields, openErr, reader, openPos>>
readVars == <<mu, pc, idx, seekErr, deleted, k, rec, nread, ret>>

ZeroHeader == [Version |-> 0, Year |-> 0, Month |-> 0, Day |-> 0, NumberRecord |-> 0,
               HeaderLength |-> 0, RecordLength |-> 0]
NilReader == [nil |-> TRUE]
EmptyMap == [n \in {} |-> 0]
NilRec == [nil |-> TRUE]
NoRet == [rec |-> NilRec, err |-> NoErr]

InitOn(streams) ==
    /\ file \in streams
    /\ pos \in {0, FileLen(file)}
    /\ pcNew = "seek0"
    /\ h = ZeroHeader
    /\ offset = 0
    /\ nFields = 0
    /\ openErr = NoErr
    /\ reader = NilReader
    /\ openPos = -1
    /\ mu = Free
    /\ pc = [p \in Procs |-> "idle"]
    /\ idx = [p \in Procs |-> 0]
    /\ seekErr = [p \in Procs |-> FALSE]
    /\ deleted = [p \in Procs |-> -1]
    /\ k = [p \in Procs |-> 0]
    /\ rec = [p \in Procs |-> EmptyMap]
    /\ nread = [p \in Procs |-> 0]
    /\ ret = [p \in Procs |-> NoRet]

Init == InitOn(Files)

\* fields[j], for j in 1..len(fields): NewReader appends the descriptor it
\* decoded from each 32-byte slot after 0x20 in turn, and the stream is never
\* written, so the slice is its length and the descriptors of the stream
Field(j) == DecodeField(ReadFull(file, FieldsStart + FieldSize * (j - 1), FieldSize).bytes)

(* ---- NewReader ---- *)
NewFail(e) == pcNew' = "failed" /\ openErr' = e

\* r.Seek(0, 0)
NewSeekStart ==
    /\ pcNew = "seek0"
    /\ \E ok \in BOOLEAN :
         IF ok THEN pos' = 0 /\ pcNew' = "header" /\ openErr' = openErr
               ELSE pos' = pos /\ NewFail(IOErr)
    /\ UNCHANGED <<file, h, offset, nFields, reader, openPos, readVars>>

\* binary.Read(r, binary.LittleEndian, &h) and the version check
DecodeHeader(b) ==
    [Version |-> b[1], Year |-> b[2], Month |-> b[3], Day |-> b[4],
     NumberRecord |-> b[5] + 256 * b[6] + 65536 * b[7] + 16777216 * b[8],
     HeaderLength |-> b[9] + 256 * b[10], RecordLength |-> b[11] + 256 * b[12]]

NewReadHeader ==
    /\ pcNew = "header"
    /\ LET r == ReadFull(file, pos, HeaderSize)
       IN  /\ pos' = r.pos
           /\ IF ~r.ok THEN NewFail(IOErr) /\ h' = h
              ELSE /\ h' = DecodeHeader(r.bytes)
                   /\ IF h'.Version # SupportedVersion
                      THEN NewFail([kind |-> "version", version |-> h'.Version])
                      ELSE pcNew' = "seek20" /\ openErr' = openErr
    /\ UNCHANGED <<file, offset, nFields, reader, openPos, readVars>>

\* r.Seek(0x20, 0); offset = 0x20
NewSeekFields ==
    /\ pcNew = "seek20"
    /\ \E ok \in BOOLEAN :
         IF ok THEN pos' = FieldsStart /\ pcNew' = "loop" /\ offset' = FieldsStart /\ openErr' = openErr
               ELSE pos' = pos /\ offset' = offset /\ NewFail(IOErr)
    /\ UNCHANGED <<file, h, nFields, reader, openPos, readVars>>

\* offset < h.HeaderLength-1, in uint16
LoopCond(off, hl) == off < (hl + Uint16 - 1) % Uint16

\* one pass of the descriptor loop
NewLoopBody ==
    /\ pcNew = "loop"
    /\ LoopCond(offset, h.HeaderLength)
    /\ LET r == ReadFull(file, pos, FieldSize)
           f == IF r.ok THEN DecodeField(r.bytes) ELSE ZeroField
       IN  /\ pos' = r.pos
           /\ IF Validate(f) # NoErr
              THEN NewFail(Validate(f)) /\ UNCHANGED <<nFields, offset>>
              ELSE /\ nFields' = nFields + 1
                   /\ offset' = (offset + FieldSize) % Uint16
                   /\ UNCHANGED <<pcNew, openErr>>
    /\ UNCHANGED <<file, h, reader, openPos, readVars>>

NewLoopExit ==
    /\ pcNew = "loop"
    /\ ~LoopCond(offset, h.HeaderLength)
    /\ pcNew' = "eoh"
    /\ UNCHANGED <<file, pos, h, offset, nFields, openErr, reader, openPos, readVars>>

\* faulty variant: the terminator is looked at without consuming the stream
BufioPeek(remaining) == {0}

\* the byte counts one Read of the stream may hand to bufio's buffer
BufioFill(remaining) == 1..Min(DefaultBufSize, remaining)

\* bufio.NewReader(r).ReadByte(), the terminator check, and the return
NewTerminator ==
    /\ pcNew = "eoh"
    /\ IF pos >= FileLen(file)
       THEN NewFail(IOErr) /\ UNCHANGED <<pos, reader, openPos>>
       ELSE \E n \in BufioFill(FileLen(file) - pos) :
              LET eoh == ByteAt(file, pos)
              IN  /\ pos' = pos + n
                  /\ IF eoh # HeaderTerminator
                     THEN /\ NewFail([kind |-> "hdrlen", hl |-> h.HeaderLength, eoh |-> eoh])
                          /\ UNCHANGED <<reader, openPos>>
                     ELSE /\ reader' = [year |-> 1900 + h.Year, month |-> h.Month, day |-> h.Day,
                                        length |-> h.NumberRecord, nFields |-> nFields,
                                        headerLength |-> h.HeaderLength,
                                        recordLength |-> h.RecordLength]
                          /\ pcNew' = "done"
                          /\ openPos' = pos'
                          /\ openErr' = openErr
    /\ UNCHANGED <<file, h, offset, nFields, readVars>>

(* ---- Reader.Read ---- *)
\* faulty variant: the Reader is handed out while NewReader is still parsing
ReaderPublishedEarly == pcNew # "seek0"

\* NewReader has returned the Reader: only then can Read be called on it
ReaderPublished == pcNew = "done"

\* offset := int64(r.headerLength) + int64(r.recordLength)*int64(i)
RecordOffset(i) == reader.headerLength + reader.recordLength * i

MapPut(m, n, v) == [x \in (DOMAIN m) \cup {n} |-> IF x = n THEN v ELSE m[x]]

\* a caller enters Read(i) and blocks in r.mu.Lock()
ReadCall(p) ==
    /\ ReaderPublished
    /\ pc[p] = "idle"
    /\ \E i \in 0..MaxIndex : idx' = [idx EXCEPT ![p] = i]
    /\ pc' = [pc EXCEPT ![p] = "lock"]
    /\ UNCHANGED <<file, pos, newVars, mu, seekErr, deleted, k, rec, nread, ret>>

\* r.mu.Lock() returns
ReadLock(p) ==
    /\ pc[p] = "lock"
    /\ mu = Free
    /\ mu' = p
    /\ pc' = [pc EXCEPT ![p] = "seek"]
    /\ UNCHANGED <<file, pos, newVars, idx, seekErr, deleted, k, rec, nread, ret>>

\* what Read does when r.rs.Seek fails: log and go on
SeekFailedNext(p) == "flag"

\* r.rs.Seek(offset, 0)
ReadSeek(p) ==
    /\ pc[p] = "seek"
    /\ \E ok \in BOOLEAN :
         IF ok
         THEN pos' = RecordOffset(idx[p]) /\ pc' = [pc EXCEPT ![p] = "flag"] /\ UNCHANGED <<seekErr, ret>>
         ELSE /\ pos' = pos
              /\ seekErr' = [seekErr EXCEPT ![p] = TRUE]
              /\ pc' = [pc EXCEPT ![p] = SeekFailedNext(p)]
              /\ ret' = [ret EXCEPT ![p] = IF SeekFailedNext(p) = "ret" THEN [rec |-> NilRec, err |-> IOErr] ELSE @]
    /\ UNCHANGED <<file, newVars, mu, idx, deleted, k, rec, nread>>

\* faulty variant: only the deleted sentinel is checked
FlagOutcomeNoCorrupt(i, b) == IF b = STAR THEN [kind |-> "deleted", i |-> i] ELSE NoErr

\* the outcome of the deletion flag b of record i: the error returned, or NoErr
FlagOutcome(i, b) ==
    IF b = STAR THEN [kind |-> "deleted", i |-> i]
    ELSE IF b # SP THEN [kind |-> "badflag", i |-> i, flag |-> b]
    ELSE NoErr

\* faulty variant: the named result rec is returned as it stands
ErrReturnPartial(r, e) == [rec |-> [nil |-> FALSE, m |-> r], err |-> e]

\* what Read returns on an error e when rec holds r
ErrReturn(r, e) == [rec |-> NilRec, err |-> e]

\* binary.Read of the deletion flag and the checks on it; rec = make(Record)
ReadFlag(p) ==
    /\ pc[p] = "flag"
    /\ LET r == ReadFull(file, pos, 1)
       IN  /\ pos' = r.pos
           /\ nread' = [nread EXCEPT ![p] = @ + (r.pos - pos)]
           /\ IF ~r.ok
              THEN /\ ret' = [ret EXCEPT ![p] = ErrReturn(rec[p], IOErr)]
                   /\ pc' = [pc EXCEPT ![p] = "ret"]
                   /\ UNCHANGED deleted
              ELSE /\ deleted' = [deleted EXCEPT ![p] = r.bytes[1]]
                   /\ IF FlagOutcome(idx[p], r.bytes[1]) # NoErr
                      THEN /\ ret' = [ret EXCEPT ![p] = ErrReturn(rec[p], FlagOutcome(idx[p], r.bytes[1]))]
                           /\ pc' = [pc EXCEPT ![p] = "ret"]
                      ELSE /\ pc' = [pc EXCEPT ![p] = "field"]
                           /\ UNCHANGED ret
    /\ UNCHANGED <<file, newVars, mu, idx, seekErr, k, rec>>

\* one pass of the loop over r.fields
ReadField(p) ==
    /\ pc[p] = "field"
    /\ k[p] < reader.nFields
    /\ \E f \in {Field(k[p] + 1)} : \E r \in {ReadFull(file, pos, f.Len)} :
       \E fv \in {FieldValue(f, r.bytes)} : \E m \in {MapPut(rec[p], FieldName(f), fv.v)} :
           /\ pos' = r.pos
           /\ nread' = [nread EXCEPT ![p] = @ + (r.pos - pos)]
           /\ IF ~r.ok
              THEN /\ ret' = [ret EXCEPT ![p] = ErrReturn(rec[p], IOErr)]
                   /\ pc' = [pc EXCEPT ![p] = "ret"]
                   /\ UNCHANGED <<rec, k>>
              ELSE /\ rec' = [rec EXCEPT ![p] = m]
                   /\ IF fv.err # NoErr
                      THEN /\ ret' = [ret EXCEPT ![p] = ErrReturn(m, fv.err)]
                           /\ pc' = [pc EXCEPT ![p] = "ret"]
                           /\ UNCHANGED k
                      ELSE /\ k' = [k EXCEPT ![p] = @ + 1]
                           /\ UNCHANGED <<pc, ret>>
    /\ UNCHANGED <<file, newVars, mu, idx, seekErr, deleted>>

\* return rec, nil
ReadLoopEnd(p) ==
    /\ pc[p] = "field"
    /\ k[p] = reader.nFields
    /\ ret' = [ret EXCEPT ![p] = [rec |-> [nil |-> FALSE, m |-> rec[p]], err |-> NoErr]]
    /\ pc' = [pc EXCEPT ![p] = "ret"]
    /\ UNCHANGED <<file, pos, newVars, mu, idx, seekErr, deleted, k, rec, nread>>

\* faulty variant: Unlock only on the successful path
UnlockOnSuccess(holder, e) == IF e = NoErr THEN Free ELSE holder

\* defer r.mu.Unlock(): the holder of mu once Read returned with error e
DeferredUnlock(holder, e) == Free

\* Read returns to its caller; the deferred Unlock runs
ReadReturn(p) ==
    /\ pc[p] = "ret"
    /\ mu' = DeferredUnlock(mu, ret[p].err)
    /\ pc' = [pc EXCEPT ![p] = "idle"]
    /\ idx' = [idx EXCEPT ![p] = 0]
    /\ seekErr' = [seekErr EXCEPT ![p] = FALSE]
    /\ deleted' = [deleted EXCEPT ![p] = -1]
    /\ k' = [k EXCEPT ![p] = 0]
    /\ rec' = [rec EXCEPT ![p] = EmptyMap]
    /\ nread' = [nread EXCEPT ![p] = 0]
    /\ ret' = [ret EXCEPT ![p] = NoRet]
    /\ UNCHANGED <<file, pos, newVars>>

Next ==
    \/ NewSeekStart
    \/ NewReadHeader
    \/ NewSeekFields
    \/ NewLoopBody
    \/ NewLoopExit
    \/ NewTerminator
    \/ \E p \in Procs : ReadCall(p)
    \/ \E p \in Procs : ReadLock(p)
    \/ \E p \in Procs : ReadSeek(p)
    \/ \E p \in Procs : ReadFlag(p)
    \/ \E p \in Procs : ReadField(p)
    \/ \E p \in Procs : ReadLoopEnd(p)
    \/ \E p \in Procs : ReadReturn(p)

Spec == Init /\ [][Next]_vars

\* the Go scheduler runs every runnable goroutine, and sync.Mutex hands the
\* lock to a waiter that has waited long (starvation mode)
FairSpec ==
    /\ InitOn(LockFiles) /\ [][Next]_vars
    /\ \A p \in Procs :
         /\ SF_vars(ReadLock(p))
         /\ WF_vars(ReadSeek(p) \/ ReadFlag(p) \/ ReadField(p) \/ ReadLoopEnd(p) \/ ReadReturn(p))

(* ---- the claims ---- *)
InBody(p) == pc[p] \in {"seek", "flag", "field", "ret"}

\* C1: every byte a Read(i) call consumes is read at the cursor position its
\* own seek set: while the call reads, the cursor is the record's offset plus
\* the bytes the call has consumed.
C1_ReadsAtOwnSeek ==
    \A p \in Procs : pc[p] \in {"flag", "field"} => pos = RecordOffset(idx[p]) + nread[p]

\* C2 as stated: NewReader holds the Reader's lock while it seeks and reads.
C2_NewReaderHoldsLock ==
    pcNew \in {"header", "seek20", "loop", "eoh"} => mu # Free

\* C2 amended: NewReader never takes the lock; no Read call is in progress
\* before NewReader has returned the Reader.
C2_NoReadDuringParse ==
    pcNew # "done" => (mu = Free /\ \A p \in Procs : pc[p] = "idle")

C2_Witness == pcNew = "loop" /\ nFields >= 1 /\ mu = Free

\* C3: a Read whose seek failed returns an error, never a decoded Record.
C3_SeekFailureReturned ==
    \A p \in Procs : (pc[p] = "ret" /\ seekErr[p]) => ret[p].err # NoErr

\* C4: after the deletion flag is read exactly one outcome occurs: space and
\* decoding continues, '*' and Read fails with record-deleted naming i, any
\* other byte and Read fails with corrupt-flag naming i and the byte; in the
\* two failures only the flag byte was consumed and no field was decoded.
C4_FlagOutcomes ==
    \A p \in Procs :
        /\ pc[p] = "field" => deleted[p] = SP
        /\ pc[p] = "ret" =>
             /\ deleted[p] = STAR =>
                  /\ ret[p].err = [kind |-> "deleted", i |-> idx[p]]
                  /\ ret[p].rec.nil /\ nread[p] = 1 /\ k[p] = 0 /\ DOMAIN rec[p] = {}
             /\ deleted[p] \notin {SP, STAR, -1} =>
                  /\ ret[p].err = [kind |-> "badflag", i |-> idx[p], flag |-> deleted[p]]
                  /\ ret[p].rec.nil /\ nread[p] = 1 /\ k[p] = 0 /\ DOMAIN rec[p] = {}
             /\ deleted[p] = SP => ret[p].err.kind \notin {"deleted", "badflag"}

C4_Witness ==
    \E p, q \in Procs :
        /\ pc[p] = "ret" /\ deleted[p] = STAR /\ idx[p] = 1 /\ reader.nFields >= 2
        /\ pc[q] = "lock"

\* C5: Read never returns a partially populated Record: with an error the
\* Record is nil, without one it holds a value for every field name.
C5_NoPartialRecord ==
    \A p \in Procs : pc[p] = "ret" =>
        IF ret[p].err # NoErr THEN ret[p].rec.nil
        ELSE /\ ~ret[p].rec.nil
             /\ \A j \in 1..reader.nFields : FieldName(Field(j)) \in DOMAIN ret[p].rec.m

C5_Witness ==
    \E p \in Procs :
        /\ pc[p] = "ret" /\ ret[p].err = DecodeErr /\ k[p] >= 1
        /\ ret[p].rec.nil

\* C6: NewReader checks the byte at headerLength-1: it succeeds only if that
\* byte is 0x0D, and the mismatch error reports the declared header length
\* and that byte.
C6_TerminatorAtHeaderLength ==
    LET hl == h.HeaderLength
    IN  (hl >= 1 /\ hl - 1 < FileLen(file)) =>
            /\ pcNew = "done" => ByteAt(file, hl - 1) = HeaderTerminator
            /\ openErr.kind = "hdrlen" =>
                 /\ ByteAt(file, hl - 1) # HeaderTerminator
                 /\ openErr = [kind |-> "hdrlen", hl |-> hl, eoh |-> ByteAt(file, hl - 1)]

\* C7 as stated, on the headers whose terminator is the byte NewReader
\* checked: after a successful NewReader the cursor is at headerLength.
C7_CursorAtHeaderLength ==
    (pcNew = "done" /\ FieldsStart + FieldSize * reader.nFields = reader.headerLength - 1)
        => openPos = reader.headerLength

\* C7 amended: after a successful NewReader the cursor is somewhere past the
\* byte that was checked as terminator (offset 32 + 32 * number of fields),
\* as far as the buffered reader read ahead and never past the end of the
\* stream; it is at or beyond headerLength.
C7_CursorPastCheckedByte ==
    pcNew = "done" =>
        LET T == FieldsStart + FieldSize * reader.nFields
        IN  /\ openPos > T
            /\ openPos <= FileLen(file)
            /\ openPos >= reader.headerLength

C7_Witness == pcNew = "done" /\ openPos > reader.headerLength /\ reader.nFields = 2

\* C8: the lock is released on every exit path of Read: it is held exactly
\* while some Read is between Lock and return, by that caller; and every
\* caller waiting in Lock eventually acquires it.
C8_LockReleased ==
    /\ [](\A p \in Procs : (mu = p) <=> InBody(p))
    /\ []((mu = Free) <=> (\A p \in Procs : ~InBody(p)))
    /\ \A p \in Procs : (pc[p] = "lock") ~> (pc[p] = "seek")

C8_Witness ==
    \E p, q \in Procs :
        /\ pc[p] = "lock"
        /\ pc[q] = "ret" /\ ret[q].err = DecodeErr /\ k[q] >= 1 /\ mu = q

\* the descriptors the loop reads when it stops as soon as the running
\* offset 32, 64, ... reaches headerLength-1 (taken in 16 bits)
DescriptorCount(hl) ==
    LET lim == (hl + Uint16 - 1) % Uint16
    IN  IF lim <= FieldsStart THEN 0 ELSE (lim - FieldsStart + FieldSize - 1) \div FieldSize

\* C9: the descriptor loop stops once the running offset reaches
\* headerLength-1: it never reads more descriptors than headerLength
\* determines.
C9_LoopBoundedByHeaderLength ==
    pcNew \in {"loop", "eoh", "done", "failed"} => nFields <= DescriptorCount(h.HeaderLength)

\* C10: every byte a successful Read(i) consumes lies inside record i: a call
\* whose seek succeeded consumes at most recordLength bytes.
C10_ReadStaysInRecord ==
    \A p \in Procs :
        (pc[p] = "ret" /\ ret[p].err = NoErr /\ ~seekErr[p]) => nread[p] <= reader.recordLength

====
